---- MODULE Spec2Model ----
(***************************************************************************)
(* MDigitalArtz Leonardo API helper (src/mdigitalartz_leonardo.ts).        *)
(*                                                                         *)
(* Four async functions, each of which builds a payload from its           *)
(* arguments, hands one request to axios and returns response.data.        *)
(*                                                                         *)
(* Conventions of the model:                                               *)
(*  - an optional (defaulted) parameter is <<>> when the caller omits it   *)
(*    (or passes undefined) and <<v>> when the caller passes v;            *)
(*  - contrast and upscaleMultiplier are fractional in the source and are  *)
(*    held in tenths here (3.5 is 35, 1.5 is 15); every other number is    *)
(*    held as it is;                                                       *)
(*  - a request is the argument list of axios.post / axios.get: method,    *)
(*    url, headers and, for a POST, data (a GET record has no data field). *)
(***************************************************************************)
EXTENDS Integers, Sequences, FiniteSets, TLC

VARIABLES
    calls,      \* the invocations made so far, in order: op, args, pc, promise, result
    requests,   \* every request handed to axios so far, in order: [call, req]
    replies     \* what the transport has produced so far: at most one per request

vars == <<calls, requests, replies>>

(***************************** bounds *************************************)

\* Number of invocations the caller makes in the concurrent specification.
MaxCalls == 2

(************************* module constants *******************************)

API_KEY == "cd8d7691-5ec5-48e1-9c6b-7160900f59a5"

PHOENIX_MODEL_ID == "de7d3faf-762f-48e0-b3b7-9d0ac3a3fcf3"

ANIME_XL_MODEL_ID == "e71a1c2f-4f80-4800-934f-2c68979d8cc8"

GENERATIONS_URL == "https://cloud.leonardo.ai/api/rest/v1/generations"

UPSCALER_URL == "https://cloud.leonardo.ai/api/rest/v1/variations/universal-upscaler"

\* The config object of the two POST shapes and of the GET.
PostConfig ==
    [headers |-> ("Authorization" :> ("Bearer " \o API_KEY)
                  @@ "Content-Type" :> "application/json")]

GetConfig ==
    [headers |-> ("Authorization" :> ("Bearer " \o API_KEY))]

(********************* parameters and payloads ****************************)

\* A default-valued parameter: the default applies when the argument is
\* omitted (undefined), and only then.
Default(arg, dflt) == IF arg = <<>> THEN dflt ELSE arg[1]

\* Variant: the AnimeXL field copied into the Phoenix payload.
PhoenixPayload_extraField(a) ==
    [modelId     |-> PHOENIX_MODEL_ID,
     prompt      |-> a.prompt,
     width       |-> Default(a.width, 1216),
     height      |-> Default(a.height, 1520),
     num_images  |-> Default(a.numImages, 4),
     contrast    |-> Default(a.contrast, 35),
     alchemy     |-> Default(a.alchemy, TRUE),
     styleUUID   |-> Default(a.styleUUID, "a5632c7c-ddbb-4e2f-ba34-8456ab3ac436"),
     presetStyle |-> "CINEMATIC"]

\* Variant: square default dimensions.
PhoenixPayload_squareDefault(a) ==
    [modelId    |-> PHOENIX_MODEL_ID,
     prompt     |-> a.prompt,
     width      |-> Default(a.width, 1024),
     height     |-> Default(a.height, 1024),
     num_images |-> Default(a.numImages, 4),
     contrast   |-> Default(a.contrast, 35),
     alchemy    |-> Default(a.alchemy, TRUE),
     styleUUID  |-> Default(a.styleUUID, "a5632c7c-ddbb-4e2f-ba34-8456ab3ac436")]

\* Variant: a per-request sequence number added to the payload.
PhoenixPayload_nonce(a) ==
    [modelId    |-> PHOENIX_MODEL_ID,
     prompt     |-> a.prompt,
     width      |-> Default(a.width, 1216),
     height     |-> Default(a.height, 1520),
     num_images |-> Default(a.numImages, 4),
     contrast   |-> Default(a.contrast, 35),
     alchemy    |-> Default(a.alchemy, TRUE),
     styleUUID  |-> Default(a.styleUUID, "a5632c7c-ddbb-4e2f-ba34-8456ab3ac436"),
     nonce      |-> Len(requests)]

PhoenixPayload(a) ==
    [modelId    |-> PHOENIX_MODEL_ID,
     prompt     |-> a.prompt,
     width      |-> Default(a.width, 1216),
     height     |-> Default(a.height, 1520),
     num_images |-> Default(a.numImages, 4),
     contrast   |-> Default(a.contrast, 35),
     alchemy    |-> Default(a.alchemy, TRUE),
     styleUUID  |-> Default(a.styleUUID, "a5632c7c-ddbb-4e2f-ba34-8456ab3ac436")]

\* Variant: another default preset style.
AnimeXLPayload_otherStyle(a) ==
    [modelId     |-> ANIME_XL_MODEL_ID,
     prompt      |-> a.prompt,
     width       |-> Default(a.width, 1216),
     height      |-> Default(a.height, 1520),
     num_images  |-> Default(a.numImages, 4),
     alchemy     |-> Default(a.alchemy, TRUE),
     presetStyle |-> Default(a.presetStyle, "ANIME")]

AnimeXLPayload(a) ==
    [modelId     |-> ANIME_XL_MODEL_ID,
     prompt      |-> a.prompt,
     width       |-> Default(a.width, 1216),
     height      |-> Default(a.height, 1520),
     num_images  |-> Default(a.numImages, 4),
     alchemy     |-> Default(a.alchemy, TRUE),
     presetStyle |-> Default(a.presetStyle, "CINEMATIC")]

\* Variant: creativityStrength and similarity taken from each other's
\* positional parameter.
UpscalePayload_swapped(a) ==
    [ultraUpscaleStyle  |-> Default(a.ultraUpscaleStyle, "ARTISTIC"),
     creativityStrength |-> Default(a.similarity, 5),
     detailContrast     |-> Default(a.detailContrast, 5),
     similarity         |-> Default(a.creativityStrength, 5),
     upscaleMultiplier  |-> Default(a.upscaleMultiplier, 15),
     generatedImageId   |-> a.generatedImageId]

\* Variant: the three strengths clamped into 1..5 before sending.
Clamp(x, lo, hi) == IF x < lo THEN lo ELSE IF x > hi THEN hi ELSE x

UpscalePayload_clamped(a) ==
    [ultraUpscaleStyle  |-> Default(a.ultraUpscaleStyle, "ARTISTIC"),
     creativityStrength |-> Clamp(Default(a.creativityStrength, 5), 1, 5),
     detailContrast     |-> Clamp(Default(a.detailContrast, 5), 1, 5),
     similarity         |-> Clamp(Default(a.similarity, 5), 1, 5),
     upscaleMultiplier  |-> Default(a.upscaleMultiplier, 15),
     generatedImageId   |-> a.generatedImageId]

UpscalePayload(a) ==
    [ultraUpscaleStyle  |-> Default(a.ultraUpscaleStyle, "ARTISTIC"),
     creativityStrength |-> Default(a.creativityStrength, 5),
     detailContrast     |-> Default(a.detailContrast, 5),
     similarity         |-> Default(a.similarity, 5),
     upscaleMultiplier  |-> Default(a.upscaleMultiplier, 15),
     generatedImageId   |-> a.generatedImageId]

\* The template literal of fetchGeneration: the id is spliced in as it is.
FetchUrl(generationId) == GENERATIONS_URL \o "/" \o generationId

(****************************** axios *************************************)

axiosPost(url, data, config) ==
    [method |-> "POST", url |-> url, headers |-> config.headers, data |-> data]

axiosGet(url, config) ==
    [method |-> "GET", url |-> url, headers |-> config.headers]

\* Variant: a config of validateStatus: () => true.
validateStatus_any(status) == TRUE

\* No call passes validateStatus in its config, so axios applies its default.
validateStatus(status) == status >= 200 /\ status < 300

\* How axios settles the promise of a request, given what the transport
\* produced: a response whose status validates fulfils it; any other
\* response rejects it with an error that carries the response; a failure
\* of the transport rejects it with an error that carries no response.
settle(r) ==
    IF r.kind = "response"
    THEN IF validateStatus(r.status)
         THEN [state |-> "fulfilled", value |-> [status |-> r.status, data |-> r.data]]
         ELSE [state  |-> "rejected",
               reason |-> [name     |-> "AxiosError",
                           response |-> [status |-> r.status, data |-> r.data]]]
    ELSE [state |-> "rejected", reason |-> [name |-> "AxiosError", code |-> r.code]]

\* Variant: one module-level response slot shared by every call.
ReplyFor_any(p) == replies

\* The replies that settle the promise p: those of the request p stands for.
ReplyFor(p) == {r \in replies : r.req = p}

\* The requests call i has handed to axios.
RequestsOf(i) == {k \in DOMAIN requests : requests[k].call = i}

\* Variant: a rejected request is sent once more.
Await_retry(c, s) ==
    IF s.state = "fulfilled"
    THEN [call |-> [c EXCEPT !.pc = "resolved", !.result = s.value.data],
          send |-> <<>>]
    ELSE IF Cardinality(RequestsOf(requests[c.promise].call)) < 2
         THEN [call |-> [c EXCEPT !.promise = Len(requests) + 1],
               send |-> <<requests[c.promise].req>>]
         ELSE [call |-> [c EXCEPT !.pc = "rejected", !.result = s.reason],
               send |-> <<>>]

\* Variant: fetchGeneration asks once more while the body says PENDING.
Await_poll(c, s) ==
    IF s.state = "fulfilled"
    THEN IF /\ c.op = "fetchGeneration"
            /\ s.value.data = "PENDING"
            /\ Cardinality(RequestsOf(requests[c.promise].call)) < 2
         THEN [call |-> [c EXCEPT !.promise = Len(requests) + 1],
               send |-> <<requests[c.promise].req>>]
         ELSE [call |-> [c EXCEPT !.pc = "resolved", !.result = s.value.data],
               send |-> <<>>]
    ELSE [call |-> [c EXCEPT !.pc = "rejected", !.result = s.reason],
          send |-> <<>>]

\* The rest of a function after its await, given the settled promise s:
\* `return response.data` when it was fulfilled; when it was rejected the
\* await throws and, with no try/catch around it, the function's own promise
\* rejects with the same reason.  No further request is sent either way.
Await(c, s) ==
    IF s.state = "fulfilled"
    THEN [call |-> [c EXCEPT !.pc = "resolved", !.result = s.value.data],
          send |-> <<>>]
    ELSE [call |-> [c EXCEPT !.pc = "rejected", !.result = s.reason],
          send |-> <<>>]

(****************************** state *************************************)

Init ==
    /\ calls = <<>>
    /\ requests = <<>>
    /\ replies = {}

\* The synchronous part of an invocation: the payload is built, the request
\* is handed to axios and the function suspends on the promise axios returns.
Invoke(op, a, req) ==
    /\ calls' = Append(calls, [op      |-> op,
                               args    |-> a,
                               pc      |-> "awaiting",
                               promise |-> Len(requests) + 1,
                               result  |-> <<>>])
    /\ requests' = Append(requests, [call |-> Len(calls) + 1, req |-> req])
    /\ UNCHANGED replies

generateImagesPhoenix(a) ==
    Invoke("generateImagesPhoenix", a,
           axiosPost(GENERATIONS_URL, PhoenixPayload(a), PostConfig))

generateImagesAnimeXL(a) ==
    Invoke("generateImagesAnimeXL", a,
           axiosPost(GENERATIONS_URL, AnimeXLPayload(a), PostConfig))

fetchGeneration(a) ==
    Invoke("fetchGeneration", a, axiosGet(FetchUrl(a.generationId), GetConfig))

upscaleImage(a) ==
    Invoke("upscaleImage", a,
           axiosPost(UPSCALER_URL, UpscalePayload(a), PostConfig))

\* The continuation of call i once its promise has settled.
Resume(i) ==
    /\ i \in DOMAIN calls
    /\ calls[i].pc = "awaiting"
    /\ \E r \in ReplyFor(calls[i].promise) :
         LET k == Await(calls[i], settle(r)) IN
         /\ calls' = [calls EXCEPT ![i] = k.call]
         /\ requests' = requests \o [n \in 1..Len(k.send) |->
                                        [call |-> i, req |-> k.send[n]]]
    /\ UNCHANGED replies

\* The environment: the remote service answers request p with any status
\* and body, or the transport fails to reach it.
Respond(p, status, body) ==
    /\ p \in DOMAIN requests
    /\ \A r \in replies : r.req # p
    /\ replies' = replies \cup
           {[req |-> p, kind |-> "response", status |-> status, data |-> body]}
    /\ UNCHANGED <<calls, requests>>

TransportFail(p, code) ==
    /\ p \in DOMAIN requests
    /\ \A r \in replies : r.req # p
    /\ replies' = replies \cup {[req |-> p, kind |-> "error", code |-> code]}
    /\ UNCHANGED <<calls, requests>>

(************************** inputs drawn **********************************)

\* What the remote side can produce for a request.
Bodies == {"PENDING", "COMPLETE"}

Statuses == {200, 204, 304, 400, 503}

FewStatuses == {200, 400}

TransportCodes == {"ECONNREFUSED"}

\* Arguments of the four functions.  Widths and heights include values that
\* are no multiple of 8 and values outside 512..1536; contrast (in tenths)
\* a value outside 10..45; the upscale multiplier (in tenths) a value outside
\* 10..20; the three upscale strengths values outside 1..5; the styles a name
\* the service does not know; the prompt the empty string.
Prompts == {"", "a cat"}

Widths == {<<>>, <<1024>>, <<1001>>, <<2048>>}

Heights == {<<>>, <<768>>, <<100>>}

NumImages == {<<>>, <<1>>}

Contrasts == {<<>>, <<20>>, <<90>>}

StyleUUIDs == {<<>>, <<"my-style-uuid">>}

Alchemies == {<<>>, <<FALSE>>}

PresetStyles == {<<>>, <<"ANIME">>, <<"NO_SUCH_STYLE">>}

Ids == {"abc123", "img-7"}

Multipliers == {<<>>, <<20>>, <<30>>}

UpscaleStyles == {<<>>, <<"2D ART & ILLUSTRATION">>}

Creativities == {<<>>, <<1>>, <<9>>}

DetailContrasts == {<<>>, <<3>>}

Similarities == {<<>>, <<2>>, <<0>>}

PhoenixArgs ==
    [prompt : Prompts, width : Widths, height : Heights, numImages : NumImages,
     contrast : Contrasts, styleUUID : StyleUUIDs, alchemy : Alchemies]

AnimeXLArgs ==
    [prompt : Prompts, width : Widths, height : Heights, numImages : NumImages,
     presetStyle : PresetStyles, alchemy : Alchemies]

FetchArgs == [generationId : Ids]

UpscaleArgs ==
    [generatedImageId : Ids, upscaleMultiplier : Multipliers,
     ultraUpscaleStyle : UpscaleStyles, creativityStrength : Creativities,
     detailContrast : DetailContrasts, similarity : Similarities]

\* The calls the concurrent specification draws from: each function with
\* only its required argument, and with every argument given.
FewPhoenixArgs ==
    {[prompt |-> "a cat", width |-> <<>>, height |-> <<>>, numImages |-> <<>>,
      contrast |-> <<>>, styleUUID |-> <<>>, alchemy |-> <<>>],
     [prompt |-> "a cat", width |-> <<1024>>, height |-> <<768>>, numImages |-> <<1>>,
      contrast |-> <<20>>, styleUUID |-> <<"my-style-uuid">>, alchemy |-> <<FALSE>>]}

FewAnimeXLArgs ==
    {[prompt |-> "a cat", width |-> <<>>, height |-> <<>>, numImages |-> <<>>,
      presetStyle |-> <<>>, alchemy |-> <<>>],
     [prompt |-> "a cat", width |-> <<1024>>, height |-> <<768>>, numImages |-> <<1>>,
      presetStyle |-> <<"ANIME">>, alchemy |-> <<FALSE>>]}

FewUpscaleArgs ==
    {[generatedImageId |-> "img-7", upscaleMultiplier |-> <<>>,
      ultraUpscaleStyle |-> <<>>, creativityStrength |-> <<>>,
      detailContrast |-> <<>>, similarity |-> <<>>],
     [generatedImageId |-> "img-7", upscaleMultiplier |-> <<20>>,
      ultraUpscaleStyle |-> <<"2D ART & ILLUSTRATION">>, creativityStrength |-> <<1>>,
      detailContrast |-> <<3>>, similarity |-> <<2>>]}

(*************************** specifications *******************************)

\* Several calls in flight at once, under every interleaving of the
\* invocations, the replies and the continuations.
Next ==
    \/ \E a \in FewPhoenixArgs : Len(calls) < MaxCalls /\ generateImagesPhoenix(a)
    \/ \E a \in FewAnimeXLArgs : Len(calls) < MaxCalls /\ generateImagesAnimeXL(a)
    \/ \E a \in FetchArgs : Len(calls) < MaxCalls /\ fetchGeneration(a)
    \/ \E a \in FewUpscaleArgs : Len(calls) < MaxCalls /\ upscaleImage(a)
    \/ \E i \in DOMAIN calls : Resume(i)
    \/ \E p \in DOMAIN requests, s \in FewStatuses, b \in Bodies : Respond(p, s, b)
    \/ \E p \in DOMAIN requests, c \in TransportCodes : TransportFail(p, c)

Spec == Init /\ [][Next]_vars

\* One call of one function, its arguments drawn from every combination of
\* the argument sets and its reply from every status and body.
NextOne ==
    \/ \E a \in PhoenixArgs : calls = <<>> /\ generateImagesPhoenix(a)
    \/ \E a \in AnimeXLArgs : calls = <<>> /\ generateImagesAnimeXL(a)
    \/ \E a \in FetchArgs : calls = <<>> /\ fetchGeneration(a)
    \/ \E a \in UpscaleArgs : calls = <<>> /\ upscaleImage(a)
    \/ \E i \in DOMAIN calls : Resume(i)
    \/ \E p \in DOMAIN requests, s \in Statuses, b \in Bodies : Respond(p, s, b)
    \/ \E p \in DOMAIN requests, c \in TransportCodes : TransportFail(p, c)

SpecOne == Init /\ [][NextOne]_vars

(************************* vocabulary of the claims ***********************)

\* The payloads call i has sent.
SentOf(i) == {requests[k].req : k \in RequestsOf(i)}

\* A reply that is a failure: the transport failed, or the status is not 2xx.
Non2xx(r) == r.kind = "response" /\ (r.status < 200 \/ r.status > 299)

Failed(r) == r.kind = "error" \/ Non2xx(r)

\* The reply of the request call i is waiting on, or has waited on.
OwnReplies(i) == {r \in replies : r.req = calls[i].promise}

\* Argument arg of a, when the caller gave it, is the value of field f of d.
AsGiven(a, arg, d, f) == a[arg] # <<>> => d[f] = a[arg][1]

Omitted(a, names) == \A n \in names : a[n] = <<>>

PhoenixFields ==
    {"modelId", "prompt", "width", "height", "num_images", "contrast", "alchemy",
     "styleUUID"}

AnimeXLFields ==
    {"modelId", "prompt", "width", "height", "num_images", "alchemy", "presetStyle"}

UpscaleFields ==
    {"ultraUpscaleStyle", "creativityStrength", "detailContrast", "similarity",
     "upscaleMultiplier", "generatedImageId"}

PhoenixCarries(a, d) ==
    /\ d.prompt = a.prompt
    /\ AsGiven(a, "width", d, "width")
    /\ AsGiven(a, "height", d, "height")
    /\ AsGiven(a, "numImages", d, "num_images")
    /\ AsGiven(a, "contrast", d, "contrast")
    /\ AsGiven(a, "styleUUID", d, "styleUUID")
    /\ AsGiven(a, "alchemy", d, "alchemy")

AnimeXLCarries(a, d) ==
    /\ d.prompt = a.prompt
    /\ AsGiven(a, "width", d, "width")
    /\ AsGiven(a, "height", d, "height")
    /\ AsGiven(a, "numImages", d, "num_images")
    /\ AsGiven(a, "presetStyle", d, "presetStyle")
    /\ AsGiven(a, "alchemy", d, "alchemy")

UpscaleCarries(a, d) ==
    /\ d.generatedImageId = a.generatedImageId
    /\ AsGiven(a, "upscaleMultiplier", d, "upscaleMultiplier")
    /\ AsGiven(a, "ultraUpscaleStyle", d, "ultraUpscaleStyle")
    /\ AsGiven(a, "creativityStrength", d, "creativityStrength")
    /\ AsGiven(a, "detailContrast", d, "detailContrast")
    /\ AsGiven(a, "similarity", d, "similarity")

(******************************* claims ***********************************)

\* C1: the body of every generateImagesPhoenix request is POSTed to
\* /api/rest/v1/generations with exactly the eight Phoenix fields, that of
\* every generateImagesAnimeXL request with exactly the seven AnimeXL fields
\* (so no presetStyle in the first, no contrast or styleUUID in the second);
\* modelId is the variant's constant and every argument the caller gave is
\* the value of its field.
C1_PayloadFieldsPerVariant ==
    \A i \in DOMAIN calls : \A q \in SentOf(i) :
        /\ calls[i].op = "generateImagesPhoenix" =>
              /\ q.method = "POST"
              /\ q.url = "https://cloud.leonardo.ai/api/rest/v1/generations"
              /\ DOMAIN q.data = PhoenixFields
              /\ "presetStyle" \notin DOMAIN q.data
              /\ q.data.modelId = PHOENIX_MODEL_ID
              /\ PhoenixCarries(calls[i].args, q.data)
        /\ calls[i].op = "generateImagesAnimeXL" =>
              /\ q.method = "POST"
              /\ q.url = "https://cloud.leonardo.ai/api/rest/v1/generations"
              /\ DOMAIN q.data = AnimeXLFields
              /\ {"contrast", "styleUUID"} \cap DOMAIN q.data = {}
              /\ q.data.modelId = ANIME_XL_MODEL_ID
              /\ AnimeXLCarries(calls[i].args, q.data)

\* A Phoenix call with every argument given has sent its request.
C1_Witness ==
    \E i \in DOMAIN calls :
        /\ calls[i].op = "generateImagesPhoenix"
        /\ \A n \in {"width", "height", "numImages", "contrast", "styleUUID", "alchemy"} :
              calls[i].args[n] # <<>>
        /\ SentOf(i) # {}

\* C2: when the reply to a call's request is a response whose status is not
\* 2xx, the call never resolves normally, and once it has settled it is
\* rejected with an error that carries that status and that body.
C2_Non2xxRejectsWithStatusAndBody ==
    \A i \in DOMAIN calls : \A r \in OwnReplies(i) :
        Non2xx(r) =>
            /\ calls[i].pc # "resolved"
            /\ calls[i].pc = "rejected" =>
                  /\ "response" \in DOMAIN calls[i].result
                  /\ calls[i].result.response.status = r.status
                  /\ calls[i].result.response.data = r.data

\* A call has been rejected by a 503 response.
C2_Witness ==
    \E i \in DOMAIN calls : \E r \in OwnReplies(i) :
        /\ r.kind = "response"
        /\ r.status = 503
        /\ calls[i].pc = "rejected"

\* C3: every call has handed exactly one request to axios, whatever has
\* happened to it since; a call that has gone on after a transport failure
\* or a non-2xx response has been rejected with that failure.
C3_ExactlyOneRequestPerCall ==
    \A i \in DOMAIN calls :
        /\ Cardinality(RequestsOf(i)) = 1
        /\ \A r \in OwnReplies(i) :
              Failed(r) /\ calls[i].pc # "awaiting" =>
                  /\ calls[i].pc = "rejected"
                  /\ calls[i].result = settle(r).reason

\* Two calls have both failed, one by the transport and one by a status.
C3_Witness ==
    \E i, j \in DOMAIN calls :
        /\ calls[i].pc = "rejected"
        /\ calls[j].pc = "rejected"
        /\ \E r \in OwnReplies(i) : r.kind = "error"
        /\ \E r \in OwnReplies(j) : Non2xx(r)

\* C4: generateImagesPhoenix called with a prompt alone sends the payload
\* with width 1216, height 1520, num_images 4, contrast 3.5, alchemy true
\* and the default style UUID.
C4_PhoenixDefaults ==
    \A i \in DOMAIN calls : \A q \in SentOf(i) :
        /\ calls[i].op = "generateImagesPhoenix"
        /\ Omitted(calls[i].args,
                   {"width", "height", "numImages", "contrast", "styleUUID", "alchemy"})
        => q.data = [modelId    |-> "de7d3faf-762f-48e0-b3b7-9d0ac3a3fcf3",
                     prompt     |-> calls[i].args.prompt,
                     width      |-> 1216,
                     height     |-> 1520,
                     num_images |-> 4,
                     contrast   |-> 35,
                     alchemy    |-> TRUE,
                     styleUUID  |-> "a5632c7c-ddbb-4e2f-ba34-8456ab3ac436"]

C4_Witness ==
    \E i \in DOMAIN calls :
        /\ calls[i].op = "generateImagesPhoenix"
        /\ calls[i].args.prompt = "a cat"
        /\ Omitted(calls[i].args,
                   {"width", "height", "numImages", "contrast", "styleUUID", "alchemy"})
        /\ SentOf(i) # {}

\* C5: generateImagesAnimeXL called with a prompt alone sends the payload
\* with width 1216, height 1520, num_images 4, alchemy true and presetStyle
\* "CINEMATIC".
C5_AnimeXLDefaults ==
    \A i \in DOMAIN calls : \A q \in SentOf(i) :
        /\ calls[i].op = "generateImagesAnimeXL"
        /\ Omitted(calls[i].args,
                   {"width", "height", "numImages", "presetStyle", "alchemy"})
        => q.data = [modelId     |-> "e71a1c2f-4f80-4800-934f-2c68979d8cc8",
                     prompt      |-> calls[i].args.prompt,
                     width       |-> 1216,
                     height      |-> 1520,
                     num_images  |-> 4,
                     alchemy     |-> TRUE,
                     presetStyle |-> "CINEMATIC"]

C5_Witness ==
    \E i \in DOMAIN calls :
        /\ calls[i].op = "generateImagesAnimeXL"
        /\ calls[i].args.prompt = "a cat"
        /\ Omitted(calls[i].args,
                   {"width", "height", "numImages", "presetStyle", "alchemy"})
        /\ SentOf(i) # {}

\* C6: upscaleImage POSTs to /api/rest/v1/variations/universal-upscaler a
\* payload of exactly the six upscale fields; with the id alone they are
\* ARTISTIC, 5, 5, 5, 1.5 and the id, and an argument the caller gives
\* replaces its own field and no other.
C6_UpscaleDefaultsAndOverrides ==
    \A i \in DOMAIN calls : \A q \in SentOf(i) :
        calls[i].op = "upscaleImage" =>
            LET a == calls[i].args
                dflt == [ultraUpscaleStyle  |-> "ARTISTIC",
                         creativityStrength |-> 5,
                         detailContrast     |-> 5,
                         similarity         |-> 5,
                         upscaleMultiplier  |-> 15,
                         generatedImageId   |-> a.generatedImageId]
            IN  /\ q.method = "POST"
                /\ q.url =
                     "https://cloud.leonardo.ai/api/rest/v1/variations/universal-upscaler"
                /\ DOMAIN q.data = UpscaleFields
                /\ \A f \in UpscaleFields :
                      q.data[f] = IF f = "generatedImageId" \/ a[f] = <<>>
                                  THEN dflt[f]
                                  ELSE a[f][1]

\* An upscale call that overrides creativityStrength alone has been sent.
C6_Witness ==
    \E i \in DOMAIN calls :
        /\ calls[i].op = "upscaleImage"
        /\ calls[i].args.creativityStrength = <<1>>
        /\ Omitted(calls[i].args,
                   {"upscaleMultiplier", "ultraUpscaleStyle", "detailContrast",
                    "similarity"})
        /\ SentOf(i) # {}

\* C7: fetchGeneration(id) hands axios one GET, never a POST, of
\* /api/rest/v1/generations/ followed by the id, without a body, and makes
\* no second request whatever the body of the reply says; when it resolves,
\* its result is the body of that reply.
C7_FetchIsOneGet ==
    \A i \in DOMAIN calls :
        calls[i].op = "fetchGeneration" =>
            /\ Cardinality(RequestsOf(i)) = 1
            /\ \A q \in SentOf(i) :
                  /\ q.method = "GET"
                  /\ q.url = "https://cloud.leonardo.ai/api/rest/v1/generations/"
                                \o calls[i].args.generationId
                  /\ "data" \notin DOMAIN q
            /\ calls[i].pc = "resolved" =>
                  \E r \in OwnReplies(i) :
                      /\ r.kind = "response"
                      /\ calls[i].result = r.data

\* fetchGeneration("abc123") has resolved with a body that says PENDING.
C7_Witness ==
    \E i \in DOMAIN calls :
        /\ calls[i].op = "fetchGeneration"
        /\ calls[i].args.generationId = "abc123"
        /\ calls[i].pc = "resolved"
        /\ calls[i].result = "PENDING"

\* C8: two calls of the same function with the same arguments have sent
\* requests with the same method, url, headers and payload.
C8_SameInputsSameRequest ==
    \A i, j \in DOMAIN calls :
        calls[i].op = calls[j].op /\ calls[i].args = calls[j].args =>
            \A p \in SentOf(i), q \in SentOf(j) : p = q

\* Two Phoenix calls with the same arguments have both been sent, the first
\* already settled.
C8_Witness ==
    \E i, j \in DOMAIN calls :
        /\ i < j
        /\ calls[i].op = "generateImagesPhoenix"
        /\ calls[j].op = "generateImagesPhoenix"
        /\ calls[i].args = calls[j].args
        /\ calls[i].pc # "awaiting"
        /\ SentOf(i) # {} /\ SentOf(j) # {}

\* C9: with several calls in flight, a call settles with what axios makes of
\* the reply to its own request; every request carries the same
\* Authorization header, "Bearer " followed by the key; and a step never
\* changes a request already sent nor a call that has settled, and changes
\* at most one call.
C9_OwnReply ==
    /\ \A i \in DOMAIN calls :
          calls[i].pc # "awaiting" =>
              \E r \in OwnReplies(i) :
                  /\ requests[r.req].call = i
                  /\ settle(r).state =
                        (IF calls[i].pc = "resolved" THEN "fulfilled" ELSE "rejected")
                  /\ calls[i].result =
                        (IF calls[i].pc = "resolved" THEN r.data ELSE settle(r).reason)
    /\ \A k \in DOMAIN requests :
          requests[k].req.headers["Authorization"]
              = "Bearer cd8d7691-5ec5-48e1-9c6b-7160900f59a5"

C9_Independent ==
    /\ \A k \in DOMAIN requests : k \in DOMAIN requests' /\ requests'[k] = requests[k]
    /\ \A i \in DOMAIN calls :
          /\ i \in DOMAIN calls'
          /\ calls[i].pc # "awaiting" => calls'[i] = calls[i]
    /\ Cardinality({i \in DOMAIN calls : calls'[i] # calls[i]}) <= 1

C9_ConcurrentCallsIndependent == []C9_OwnReply /\ [][C9_Independent]_vars

\* The later of two calls has been rejected while the earlier one, whose
\* request has been answered with a 200, has not resumed yet.
C9_Witness ==
    \E i, j \in DOMAIN calls :
        /\ i < j
        /\ calls[i].pc = "awaiting"
        /\ \E r \in OwnReplies(i) : r.kind = "response" /\ r.status = 200
        /\ calls[j].pc = "rejected"

\* The arguments of a call that the remote service documents as invalid.
BadDimension(x) == x # <<>> /\ (x[1] % 8 # 0 \/ x[1] < 512 \/ x[1] > 1536)

OutOfRange(x, lo, hi) == x # <<>> /\ (x[1] < lo \/ x[1] > hi)

InvalidArgs(c) ==
    \/ /\ c.op \in {"generateImagesPhoenix", "generateImagesAnimeXL"}
       /\ \/ c.args.prompt = ""
          \/ BadDimension(c.args.width)
          \/ BadDimension(c.args.height)
    \/ c.op = "generateImagesPhoenix" /\ OutOfRange(c.args.contrast, 10, 45)
    \/ c.op = "generateImagesAnimeXL" /\ c.args.presetStyle = <<"NO_SUCH_STYLE">>
    \/ /\ c.op = "upscaleImage"
       /\ \/ OutOfRange(c.args.upscaleMultiplier, 10, 20)
          \/ OutOfRange(c.args.creativityStrength, 1, 5)
          \/ OutOfRange(c.args.detailContrast, 1, 5)
          \/ OutOfRange(c.args.similarity, 1, 5)

====
